---- MODULE Spec2Model ----
(***************************************************************************)
(* CHURP shareholder (secret-sharing/src/churp/shareholder.rs).            *)
(*                                                                         *)
(* The code is generic over a prime-order group G.  The model instantiates *)
(* G with the additive group Z_Q (an element is written by its discrete    *)
(* logarithm) and G::Scalar with the prime field Z_Q.  Polynomial,         *)
(* VerificationMatrix and FieldDigest live outside shareholder.rs; they    *)
(* are modelled from their interface description.                          *)
(***************************************************************************)
EXTENDS Integers, Sequences, FiniteSets, TLC

VARIABLES initial, created, self, call, ret, zeroUpdates

vars == <<initial, created, self, call, ret, zeroUpdates>>

(***************************************************************************)
(* Instantiation and bounds                                                *)
(***************************************************************************)
\* Order of the group G and of its scalar field G::Scalar.
Q == 3

\* Largest number of coefficients of a polynomial.
MaxLen == 2

\* Shareholder identifiers are 0..MaxId (stand-ins for the 32-byte values).
MaxId == 4

\* Dimensions (rows, cols) of the verification matrices.
Dims == {<<1, 1>>, <<1, 2>>, <<2, 1>>}

(***************************************************************************)
(* Group, field, Option and Result                                         *)
(***************************************************************************)
Scalars == 0 .. (Q - 1)

GroupElems == 0 .. (Q - 1)

\* G::identity()
identity == 0

\* Field addition.
FieldAdd(a, b) == (a + b) % Q

\* Field multiplication.
FieldMul(a, b) == (a * b) % Q

\* Group operation.
GroupAdd(a, b) == (a + b) % Q

\* hash * s : scalar multiplication in the group.
ScalarMul(hash, s) == (hash * s) % Q

\* Field::is_zero
is_zero(s) == s = 0

None == <<>>

Some(v) == <<v>>

Ok(v) == [tag |-> "Ok", val |-> v]

Err(e) == [tag |-> "Err", err |-> e]

(***************************************************************************)
(* Polynomial<F> : the sequence of its coefficients, a[1] the constant one *)
(***************************************************************************)
Polys == UNION {[1 .. n -> Scalars] : n \in 0 .. MaxLen}

\* Polynomial::degree
degree(p) == IF Len(p) = 0 THEN 0 ELSE Len(p) - 1

\* Polynomial::coefficient(i), i counted from 0
coefficient(p, i) == IF i + 1 <= Len(p) THEN Some(p[i + 1]) ELSE None

\* Polynomial::eval by Horner's rule
RECURSIVE Horner(_, _, _, _)
Horner(p, x, i, r) ==
    IF i = 0 THEN r ELSE Horner(p, x, i - 1, FieldAdd(FieldMul(r, x), p[i]))

eval(p, x) == Horner(p, x, Len(p), 0)

\* &Polynomial + &Polynomial : coefficient-wise
PolyAdd(a, b) ==
    LET n == IF Len(a) >= Len(b) THEN Len(a) ELSE Len(b)
    IN  [i \in 1 .. n |->
            IF i <= Len(a) /\ i <= Len(b) THEN FieldAdd(a[i], b[i])
            ELSE IF i <= Len(a) THEN a[i] ELSE b[i]]

(***************************************************************************)
(* VerificationMatrix<G> : the sequence of its rows                        *)
(***************************************************************************)
Matrices == UNION {[1 .. d[1] -> [1 .. d[2] -> GroupElems]] : d \in Dims}

\* VerificationMatrix::dimensions
dimensions(vm) == <<Len(vm), Len(vm[1])>>

\* VerificationMatrix::is_zero_hole
is_zero_hole(vm) == vm[1][1] = identity

\* &VerificationMatrix + &VerificationMatrix : entry-wise, equal dimensions
MatAdd(a, b) ==
    [i \in 1 .. Len(a) |-> [j \in 1 .. Len(a[1]) |-> GroupAdd(a[i][j], b[i][j])]]

(***************************************************************************)
(* ShareholderId                                                           *)
(***************************************************************************)
SHAREHOLDER_ENC_DST == "shareholder"

Ids == 0 .. MaxId

\* FieldDigest::hash_to_field : a fixed function of (bytes, dst) that fails
\* on some inputs and hits zero on others.
hash_to_field(bytes, dst) ==
    IF dst = SHAREHOLDER_ENC_DST
    THEN IF bytes = 0 THEN Err("HashToFieldFailed") ELSE Ok((bytes - 1) % Q)
    ELSE Ok((bytes + 1) % Q)

\* encode without the zero check.
encode_NoZeroCheck(id) ==
    LET s == hash_to_field(id, SHAREHOLDER_ENC_DST)
    IN  IF s.tag = "Err" THEN Err("ShareholderEncodingFailed") ELSE Ok(s.val)

\* ShareholderId::encode
encode(id) ==
    LET s == hash_to_field(id, SHAREHOLDER_ENC_DST)
    IN  IF s.tag = "Err" THEN Err("ShareholderEncodingFailed")
        ELSE IF is_zero(s.val) THEN Err("ZeroValueShareholder")
        ELSE Ok(s.val)

(***************************************************************************)
(* SecretShare and Shareholder                                             *)
(***************************************************************************)
\* SecretShare::new
SecretShare_new(p, vm) == [p |-> p, vm |-> vm]

\* Shareholder::new ; the Shareholder is its share
Shareholder_new(p, vm) == SecretShare_new(p, vm)

Shares == [p : Polys, vm : Matrices]

\* switch_point that evaluates at the encoding of the point, not at the point.
switch_point_AtEncodedPoint(sh, id) == eval(sh.p, (id + 1) % Q)

\* Shareholder::switch_point
switch_point(sh, id) == eval(sh.p, id)

\* key_share whose fallback is the hash itself, not the identity.
key_share_FallbackHash(sh, hash) ==
    LET c == coefficient(sh.p, 0)
    IN  IF c # None THEN ScalarMul(hash, c[1]) ELSE hash

\* Shareholder::key_share
key_share(sh, hash) ==
    LET c == coefficient(sh.p, 0)
    IN  IF c # None THEN ScalarMul(hash, c[1]) ELSE identity

\* proactivize without the zero-hole check.
proactivize_NoZeroHoleCheck(sh, p, vm) ==
    IF degree(p) # degree(sh.p) THEN Err("PolynomialDegreeMismatch")
    ELSE IF dimensions(vm) # dimensions(sh.vm)
         THEN Err("VerificationMatrixDimensionMismatch")
    ELSE Ok(Shareholder_new(PolyAdd(p, sh.p), MatAdd(vm, sh.vm)))

\* proactivize that checks the dimensions before the zero hole.
proactivize_DimensionsFirst(sh, p, vm) ==
    IF degree(p) # degree(sh.p) THEN Err("PolynomialDegreeMismatch")
    ELSE IF dimensions(vm) # dimensions(sh.vm)
         THEN Err("VerificationMatrixDimensionMismatch")
    ELSE IF ~is_zero_hole(vm) THEN Err("VerificationMatrixZeroHoleMismatch")
    ELSE Ok(Shareholder_new(PolyAdd(p, sh.p), MatAdd(vm, sh.vm)))

\* proactivize that keeps the update's matrix instead of the sum.
proactivize_UpdateMatrixOnly(sh, p, vm) ==
    IF degree(p) # degree(sh.p) THEN Err("PolynomialDegreeMismatch")
    ELSE IF ~is_zero_hole(vm) THEN Err("VerificationMatrixZeroHoleMismatch")
    ELSE IF dimensions(vm) # dimensions(sh.vm)
         THEN Err("VerificationMatrixDimensionMismatch")
    ELSE Ok(Shareholder_new(PolyAdd(p, sh.p), vm))

\* proactivize that keeps the current polynomial instead of the sum.
proactivize_CurrentPolynomialOnly(sh, p, vm) ==
    IF degree(p) # degree(sh.p) THEN Err("PolynomialDegreeMismatch")
    ELSE IF ~is_zero_hole(vm) THEN Err("VerificationMatrixZeroHoleMismatch")
    ELSE IF dimensions(vm) # dimensions(sh.vm)
         THEN Err("VerificationMatrixDimensionMismatch")
    ELSE Ok(Shareholder_new(sh.p, MatAdd(vm, sh.vm)))

\* proactivize that drops the leading zero coefficients of the sum.
RECURSIVE Trim(_)
Trim(a) ==
    IF Len(a) > 1 /\ a[Len(a)] = 0 THEN Trim(SubSeq(a, 1, Len(a) - 1)) ELSE a

proactivize_TrimmedSum(sh, p, vm) ==
    IF degree(p) # degree(sh.p) THEN Err("PolynomialDegreeMismatch")
    ELSE IF ~is_zero_hole(vm) THEN Err("VerificationMatrixZeroHoleMismatch")
    ELSE IF dimensions(vm) # dimensions(sh.vm)
         THEN Err("VerificationMatrixDimensionMismatch")
    ELSE Ok(Shareholder_new(Trim(PolyAdd(p, sh.p)), MatAdd(vm, sh.vm)))

\* proactivize that subtracts the current polynomial from the update.
proactivize_Difference(sh, p, vm) ==
    IF degree(p) # degree(sh.p) THEN Err("PolynomialDegreeMismatch")
    ELSE IF ~is_zero_hole(vm) THEN Err("VerificationMatrixZeroHoleMismatch")
    ELSE IF dimensions(vm) # dimensions(sh.vm)
         THEN Err("VerificationMatrixDimensionMismatch")
    ELSE Ok(Shareholder_new(
                PolyAdd(p, [i \in 1 .. Len(sh.p) |-> (Q - sh.p[i]) % Q]),
                MatAdd(vm, sh.vm)))

\* Shareholder::proactivize
proactivize(sh, p, vm) ==
    IF degree(p) # degree(sh.p) THEN Err("PolynomialDegreeMismatch")
    ELSE IF ~is_zero_hole(vm) THEN Err("VerificationMatrixZeroHoleMismatch")
    ELSE IF dimensions(vm) # dimensions(sh.vm)
         THEN Err("VerificationMatrixDimensionMismatch")
    ELSE Ok(Shareholder_new(PolyAdd(p, sh.p), MatAdd(vm, sh.vm)))

(***************************************************************************)
(* State machine                                                           *)
(*   initial     the Shareholder of epoch 0                                *)
(*   created     the current epoch's Shareholder as it was constructed     *)
(*   self        the current epoch's Shareholder                           *)
(*   call, ret   the last call and what it returned                        *)
(*   zeroUpdates every adopted update polynomial had constant term 0       *)
(***************************************************************************)
InitialShares ==
    { Shareholder_new(<<>>, <<<<1>>>>),
      Shareholder_new(<<1>>, <<<<0, 1>>>>),
      Shareholder_new(<<1, 2>>, <<<<1>>, <<2>>>>) }

NoCall == [op |-> "none"]

Init ==
    /\ initial \in InitialShares
    /\ created = initial
    /\ self = initial
    /\ call = NoCall
    /\ ret = NoCall
    /\ zeroUpdates = TRUE

Encode(id) ==
    /\ call' = [op |-> "encode", id |-> id]
    /\ ret' = encode(id)
    /\ UNCHANGED <<initial, created, self, zeroUpdates>>

SwitchPoint(id) ==
    /\ call' = [op |-> "switch_point", id |-> id]
    /\ ret' = switch_point(self, id)
    /\ UNCHANGED <<initial, created, self, zeroUpdates>>

KeyShare(hash) ==
    /\ call' = [op |-> "key_share", hash |-> hash]
    /\ ret' = key_share(self, hash)
    /\ UNCHANGED <<initial, created, self, zeroUpdates>>

\* proactivize that updates the Shareholder in place.
ProactivizeInPlace(p, vm) ==
    /\ call' = [op |-> "proactivize", p |-> p, vm |-> vm]
    /\ ret' = proactivize(self, p, vm)
    /\ self' = IF ret'.tag = "Ok" THEN ret'.val ELSE self
    /\ UNCHANGED <<initial, created, zeroUpdates>>

Proactivize(p, vm) ==
    /\ call' = [op |-> "proactivize", p |-> p, vm |-> vm]
    /\ ret' = proactivize(self, p, vm)
    /\ UNCHANGED <<initial, created, self, zeroUpdates>>

\* The caller takes the Shareholder a successful proactivize returned as the
\* next epoch's Shareholder.
Adopt ==
    /\ call.op = "proactivize"
    /\ ret.tag = "Ok"
    /\ self' = ret.val
    /\ created' = ret.val
    /\ zeroUpdates' = (zeroUpdates /\ (Len(call.p) = 0 \/ call.p[1] = 0))
    /\ call' = [op |-> "adopt"]
    /\ ret' = NoCall
    /\ UNCHANGED initial

Next ==
    \/ \E id \in Ids : Encode(id)
    \/ \E id \in Scalars : SwitchPoint(id)
    \/ \E hash \in GroupElems : KeyShare(hash)
    \/ \E p \in Polys, vm \in Matrices : Proactivize(p, vm)
    \/ Adopt

Spec == Init /\ [][Next]_vars

(***************************************************************************)
(* Properties                                                              *)
(***************************************************************************)
IsProactivize == call.op = "proactivize"

ReturnedOk == IsProactivize /\ ret.tag = "Ok"

ReturnedErr(e) == IsProactivize /\ ret.tag = "Err" /\ ret.err = e

DegreeOk == degree(call.p) = degree(self.p)

ZeroHoleOk == call.vm[1][1] = 0

DimensionsOk ==
    /\ Len(call.vm) = Len(self.vm)
    /\ Len(call.vm[1]) = Len(self.vm[1])

\* The scalar key_share multiplies by: the constant coefficient, 0 if absent.
Secret(p) == IF Len(p) > 0 THEN p[1] ELSE 0

\* C1: proactivize returns Ok exactly when the update's degree equals the
\* current degree, the update matrix is zero-hole and its dimensions equal
\* the current ones; otherwise it returns one of the three mismatch errors,
\* and the error it returns names a condition that is violated.
C1_OkIffAllChecksPass ==
    IsProactivize =>
        /\ ret.tag \in {"Ok", "Err"}
        /\ (ret.tag = "Ok") <=> (DegreeOk /\ ZeroHoleOk /\ DimensionsOk)
        /\ ret.tag = "Err" =>
            /\ ret.err \in {"PolynomialDegreeMismatch",
                            "VerificationMatrixZeroHoleMismatch",
                            "VerificationMatrixDimensionMismatch"}
            /\ ret.err = "PolynomialDegreeMismatch" => ~DegreeOk
            /\ ret.err = "VerificationMatrixZeroHoleMismatch" => ~ZeroHoleOk
            /\ ret.err = "VerificationMatrixDimensionMismatch" => ~DimensionsOk

\* A lower-degree update against a higher-degree share was rejected with
\* PolynomialDegreeMismatch although its matrix passes both matrix checks.
C1_Witness ==
    /\ ReturnedErr("PolynomialDegreeMismatch")
    /\ degree(call.p) + 1 = degree(self.p)
    /\ ZeroHoleOk /\ DimensionsOk

\* C8: the error follows the order of the checks: a degree mismatch is
\* reported whatever the matrix is; a zero-hole mismatch exactly when the
\* degrees match and the matrix is not zero-hole; a dimension mismatch
\* exactly when the degrees match, the matrix is zero-hole and the
\* dimensions differ.
C8_ErrorPriority ==
    IsProactivize =>
        /\ ~DegreeOk => ReturnedErr("PolynomialDegreeMismatch")
        /\ ReturnedErr("VerificationMatrixZeroHoleMismatch")
               <=> (DegreeOk /\ ~ZeroHoleOk)
        /\ ReturnedErr("VerificationMatrixDimensionMismatch")
               <=> (DegreeOk /\ ZeroHoleOk /\ ~DimensionsOk)

\* An update with matching degree whose matrix is neither zero-hole nor of
\* the current dimensions was rejected with the zero-hole error.
C8_Witness ==
    /\ ReturnedErr("VerificationMatrixZeroHoleMismatch")
    /\ ~DimensionsOk

\* C3: on success the new polynomial is the coefficient-wise field sum of
\* the current polynomial and the update, the new matrix the entry-wise
\* group sum of the current matrix and the update matrix; the new constant
\* coefficient is the sum of the two and equals the current one when the
\* update's constant coefficient is 0.
C3_ResultIsSum ==
    ReturnedOk =>
        LET new == ret.val
            n   == IF Len(self.p) >= Len(call.p) THEN Len(self.p) ELSE Len(call.p)
            co(p, i) == IF i <= Len(p) THEN p[i] ELSE 0
        IN  /\ Len(new.p) = n
            /\ \A i \in 1 .. n :
                   new.p[i] = (co(self.p, i) + co(call.p, i)) % Q
            /\ Len(new.vm) = Len(self.vm)
            /\ \A i \in 1 .. Len(self.vm) :
                   /\ Len(new.vm[i]) = Len(self.vm[i])
                   /\ \A j \in 1 .. Len(self.vm[i]) :
                          new.vm[i][j] = (self.vm[i][j] + call.vm[i][j]) % Q
            /\ (Len(self.p) > 0 /\ Len(call.p) > 0 /\ call.p[1] = 0)
                   => new.p[1] = self.p[1]

\* A successful update with non-zero entries in polynomial and matrix.
C3_Witness ==
    /\ ReturnedOk
    /\ Len(call.p) = 2 /\ call.p[1] = 0 /\ call.p[2] # 0
    /\ Len(call.vm) = 2 /\ call.vm[2][1] # 0
    /\ self.p[1] # 0

\* C2 as stated: every successful proactivize leaves the constant
\* coefficient, and so key_share, as it was, and the constant coefficient
\* is the initial one in every epoch.
C2_SecretAlwaysUnchanged ==
    /\ (ReturnedOk /\ Len(self.p) > 0) =>
           /\ ret.val.p[1] = self.p[1]
           /\ \A hash \in GroupElems :
                  key_share(ret.val, hash) = key_share(self, hash)
    /\ Secret(self.p) = Secret(initial.p)

\* C2 as amended: a successful proactivize leaves the constant coefficient
\* (and key_share) as it was exactly when the update polynomial's constant
\* coefficient is zero or absent, which no check enforces; the constant
\* coefficient is the initial one in every epoch reached through updates
\* whose polynomials have a zero constant coefficient.
C2_SecretUnchangedIffZeroConstant ==
    /\ ReturnedOk =>
           /\ (Secret(ret.val.p) = Secret(self.p)) <=> (Secret(call.p) = 0)
           /\ (\A hash \in GroupElems :
                   key_share(ret.val, hash) = key_share(self, hash))
                   <=> (Secret(call.p) = 0)
    /\ zeroUpdates => Secret(self.p) = Secret(initial.p)

\* After an adopted update with zero constant coefficient that changed the
\* share, a further such update succeeded on a share with non-zero secret.
C2_Witness ==
    /\ ReturnedOk
    /\ zeroUpdates
    /\ self # initial
    /\ Len(call.p) = 2 /\ call.p[1] = 0 /\ call.p[2] # 0
    /\ self.p[1] # 0

\* C4: no call changes the Shareholder it is made on: after any sequence
\* of calls the epoch's Shareholder is as constructed, every proactivize
\* returned what it returns on the Shareholder as constructed, and a
\* failed one carries no Shareholder.
C4_ShareholderNeverChanges ==
    /\ self = created
    /\ IsProactivize =>
           /\ ret = proactivize(created, call.p, call.vm)
           /\ ret.tag = "Err" => DOMAIN ret = {"tag", "err"}
           /\ ret.tag = "Ok" => DOMAIN ret = {"tag", "val"}

\* A successful proactivize returned a Shareholder that differs from the
\* one it was called on, which is still as constructed.
C4_Witness ==
    /\ ReturnedOk
    /\ ret.val # self
    /\ self = created
    /\ self # initial

\* C5: encode never returns Ok(0): it fails with ShareholderEncodingFailed
\* exactly when hash_to_field under the tag "shareholder" fails, with
\* ZeroValueShareholder exactly when it yields zero, and otherwise returns
\* the non-zero element hash_to_field yields for those bytes.
C5_EncodeNeverZero ==
    call.op = "encode" =>
        LET h == hash_to_field(call.id, "shareholder")
        IN  /\ ret.tag \in {"Ok", "Err"}
            /\ ret.tag = "Ok" => (ret.val \in Scalars /\ ret.val # 0)
            /\ (ret.tag = "Err" /\ ret.err = "ShareholderEncodingFailed")
                   <=> (h.tag = "Err")
            /\ (ret.tag = "Err" /\ ret.err = "ZeroValueShareholder")
                   <=> (h.tag = "Ok" /\ h.val = 0)
            /\ (h.tag = "Ok" /\ h.val # 0) => (ret.tag = "Ok" /\ ret.val = h.val)

\* An identifier that hashes to zero was rejected.
C5_Witness ==
    /\ call.op = "encode"
    /\ hash_to_field(call.id, "shareholder") = Ok(0)
    /\ ret.tag = "Err" /\ ret.err = "ZeroValueShareholder"

\* C6: key_share(hash) is hash scaled by the coefficient at index 0 when
\* there is one and the identity when there is none; it is always a group
\* element, never an error, and it is the identity as well when the
\* constant coefficient is present and zero.
C6_KeyShare ==
    call.op = "key_share" =>
        /\ ret \in GroupElems
        /\ Len(self.p) > 0 => ret = (call.hash * self.p[1]) % Q
        /\ Len(self.p) = 0 => ret = 0
        /\ (Len(self.p) > 0 /\ self.p[1] = 0) => ret = 0

\* key_share of a non-identity hash on a Shareholder without coefficients.
C6_Witness ==
    /\ call.op = "key_share"
    /\ Len(self.p) = 0
    /\ call.hash # 0
    /\ ret = 0

\* The value of p at x, as the sum of the terms p[i] * x^i.
RECURSIVE Power(_, _)
Power(x, n) == IF n = 0 THEN 1 ELSE (x * Power(x, n - 1)) % Q

RECURSIVE SumOfTerms(_, _, _)
SumOfTerms(p, x, n) ==
    IF n = 0 THEN 0 ELSE (SumOfTerms(p, x, n - 1) + p[n] * Power(x, n - 1)) % Q

\* C7: switch_point(x) is the value of the Shareholder's polynomial at x,
\* for every scalar x and without validation; at x = 0 it is the constant
\* coefficient, the scalar key_share multiplies by.
C7_SwitchPointIsEvaluation ==
    call.op = "switch_point" =>
        /\ ret \in Scalars
        /\ ret = SumOfTerms(self.p, call.id, Len(self.p))
        /\ call.id = 0 =>
               /\ ret = Secret(self.p)
               /\ \A hash \in GroupElems : key_share(self, hash) = (hash * ret) % Q

\* p(x) = 5 + 3x at x = 7 gives 26, read in the field of the model.
C7_Witness ==
    /\ call.op = "switch_point"
    /\ self.p = <<5 % Q, 3 % Q>>
    /\ call.id = 7 % Q
    /\ ret = 26 % Q

Twice(sh, t, u) ==
    LET r == proactivize(sh, t.p, t.vm)
    IN  IF r.tag = "Ok" THEN proactivize(r.val, u.p, u.vm) ELSE r

====
